---- MODULE Spec2Model ----
(***************************************************************************)
(* Model of src/app.py (Cyber Risk Reporter Agent): one Streamlit script   *)
(* run, from the trigger/credential test through the agent pipeline, the   *)
(* regex extraction, JSON parsing, the PDF render loop, the byte           *)
(* conversion and the download offer, with the try/except boundary.        *)
(*                                                                         *)
(* Text is modelled at two levels:                                         *)
(*  - field values and PDF text are Python strings: sequences of Unicode   *)
(*    code points (naturals);                                              *)
(*  - the pipeline's raw output is a sequence of lexical tokens: "[", "]", *)
(*    ",", "\n" (whitespace), "x" (a prose character that is no JSON),     *)
(*    the literal "null", and one token per JSON object literal            *)
(*    ("A".."D", whose contents ObjectOf gives).  Object literals are      *)
(*    taken to contain no bracket characters.                              *)
(***************************************************************************)
EXTENDS Integers, Sequences, FiniteSets, TLC

VARIABLES
    pc,          \* position of the script run
    button,      \* value st.button returned in this run
    api_key,     \* value of the sidebar text input in this run
    built,       \* LLM, agents, tasks and crew were constructed (lines 67-99)
    kickoffs,    \* number of crew.kickoff() calls in this run
    raw_result,  \* [set, text]: crew.kickoff() returned, and str(raw_result)
    json_match,  \* result of re.search: [found, span]
    data,        \* result of json.loads: sequence of parsed elements
    parsed,      \* json.loads returned
    pdfCreated,  \* CyberPDF() was constructed and a page added
    idx,         \* position of the render loop in data[:4] (1-based)
    pdfCells,    \* cells written to the document so far, in order
    pdf_output,  \* [made, bytes]: result of line 143
    display,     \* elements shown by st.success / st.download_button / st.error
    exc,         \* class of the exception in flight, or "none"
    sanIn,       \* Text Sanitizer harness: argument of safe_encode
    sanOut,      \* Text Sanitizer harness: [called, raised, out]
    sanPc,       \* Text Sanitizer harness: "off" | "ready" | "done"
    fpdfOutput   \* type of what the installed fpdf's output(dest='S') returns

vars == <<pc, button, api_key, built, kickoffs, raw_result, json_match, data,
          parsed, pdfCreated, idx, pdfCells, pdf_output, display, exc,
          sanIn, sanOut, sanPc, fpdfOutput>>

runVars == <<pc, button, api_key, built, kickoffs, raw_result, json_match, data,
             parsed, pdfCreated, idx, pdfCells, pdf_output, display, exc>>

sanVars == <<sanIn, sanOut, sanPc>>

envVars == <<fpdfOutput>>

-----------------------------------------------------------------------------
(* Bounds of the model *)

\* longest list of array elements the pipeline text is built from
MaxItems == 5
\* longest free-form token sequence returned by the pipeline
MaxTextLen == 4
\* longest string handed to the Text Sanitizer harness
MaxStrLen == 3

(* Program constants *)

\* data[:4]
CapArticles == 4
\* highest code point the latin-1 codec can encode
Latin1Max == 255

-----------------------------------------------------------------------------
(* Python values: a JSON scalar is str, None or a number *)

Str(s) == [t |-> "str", s |-> s, n |-> 0]
NullV == [t |-> "null", s |-> <<>>, n |-> 0]
Num(n) == [t |-> "num", s |-> <<>>, n |-> n]

\* Python truthiness of a scalar: `if not text`
Truthy(v) ==
    CASE v.t = "str" -> v.s # <<>>
      [] v.t = "null" -> FALSE
      [] v.t = "num" -> v.n # 0

\* str(v) as an f-string renders it; numbers of the model are one digit
PyStr(v) ==
    CASE v.t = "str" -> v.s
      [] v.t = "null" -> <<78, 111, 110, 101>>
      [] v.t = "num" -> <<48 + v.n>>

-----------------------------------------------------------------------------
(* 4.1 Text Sanitizer: safe_encode *)

\* the replacements dict in insertion order; the literal names U+2014 twice,
\* which leaves one entry; the last key is the shield emoji U+1F6E1 U+FE0F
replacements ==
    << [s |-> <<8216>>, r |-> <<39>>],
       [s |-> <<8217>>, r |-> <<39>>],
       [s |-> <<8220>>, r |-> <<34>>],
       [s |-> <<8221>>, r |-> <<34>>],
       [s |-> <<8211>>, r |-> <<45>>],
       [s |-> <<8212>>, r |-> <<45>>],
       [s |-> <<8230>>, r |-> <<46, 46, 46>>],
       [s |-> <<128737, 65039>>, r |-> <<>>] >>

RECURSIVE ReplaceFrom(_, _, _, _)
\* str.replace(pat, rep) from position i on: leftmost non-overlapping matches
ReplaceFrom(text, pat, rep, i) ==
    IF i > Len(text) THEN <<>>
    ELSE IF i + Len(pat) - 1 <= Len(text) /\ SubSeq(text, i, i + Len(pat) - 1) = pat
         THEN rep \o ReplaceFrom(text, pat, rep, i + Len(pat))
         ELSE <<text[i]>> \o ReplaceFrom(text, pat, rep, i + 1)

StrReplace(text, pat, rep) == ReplaceFrom(text, pat, rep, 1)

RECURSIVE ApplyReplacementsFrom(_, _)
\* for s, r in replacements.items(): text = text.replace(s, r)
ApplyReplacementsFrom(text, k) ==
    IF k > Len(replacements) THEN text
    ELSE ApplyReplacementsFrom(
             StrReplace(text, replacements[k].s, replacements[k].r), k + 1)

\* a bug: the loop body is skipped, no substitution is made
ApplyNoReplacements(text) == text

ApplyReplacements(text) == ApplyReplacementsFrom(text, 1)

\* text.encode('latin-1', 'ignore'): one byte per encodable code point
EncodeLatin1Ignore(text) == SelectSeq(text, LAMBDA c : c <= Latin1Max)

\* bytes.decode('latin-1'): byte b is code point b
DecodeLatin1(bytes) == [i \in DOMAIN bytes |-> bytes[i]]

\* safe_encode raises AttributeError on a truthy value that is no str
SafeEncodeRaises(v) == Truthy(v) /\ v.t # "str"

\* safe_encode(text), where it returns
SafeEncode(v) ==
    IF ~Truthy(v) THEN <<>>
    ELSE DecodeLatin1(EncodeLatin1Ignore(ApplyReplacements(v.s)))

-----------------------------------------------------------------------------
(* Text Sanitizer harness: the inputs and the one step applying safe_encode *)

\* code points the harness builds strings from: every key character of the
\* replacement table, ASCII 'a', latin-1 e-acute, and the euro sign
SanAlphabet ==
    {97, 233, 8364, 8216, 8217, 8220, 8221, 8211, 8212, 8230, 128737, 65039}

RECURSIVE SeqsUpTo(_, _)
\* all sequences over S of length at most n
SeqsUpTo(S, n) ==
    IF n = 0 THEN {<<>>}
    ELSE LET shorter == SeqsUpTo(S, n - 1)
         IN shorter \cup {Append(s, c) : s \in shorter, c \in S}

SanInputs == {NullV} \cup {Str(s) : s \in SeqsUpTo(SanAlphabet, MaxStrLen)}

NoSanOut == [called |-> FALSE, raised |-> FALSE, out |-> <<>>]

CallSafeEncode ==
    /\ sanPc = "ready"
    /\ sanOut' = [called |-> TRUE,
                  raised |-> SafeEncodeRaises(sanIn),
                  out |-> IF SafeEncodeRaises(sanIn) THEN <<>> ELSE SafeEncode(sanIn)]
    /\ sanPc' = "done"
    /\ UNCHANGED <<sanIn, runVars, envVars>>

-----------------------------------------------------------------------------
(* 4.3 Result Extractor: re.search(r'\[.*\]', str(raw_result), re.DOTALL) *)

NoMatch == [found |-> FALSE, span |-> <<>>]

\* positions j > i of text holding "]" that '.*' can reach from i: with
\* re.DOTALL the dot matches every character, line breaks included
Reach(text, i) == {j \in (i + 1)..Len(text) : text[j] = "]"}

Max(S) == CHOOSE m \in S : \A n \in S : n <= m
Min(S) == CHOOSE m \in S : \A n \in S : m <= n

\* a bug: the lazy quantifier '.*?' ends the match at the nearest "]"
MatchEndLazy(text, i) == Min(Reach(text, i))

\* the greedy '.*' ends the match at the farthest "]" it can reach
MatchEnd(text, i) == Max(Reach(text, i))

\* a bug: the pattern lacks its closing bracket (r'\[.*'): the match runs
\* from the first "[" to the end of the text
ReSearchOpenOnly(text) ==
    LET starts == {i \in 1..Len(text) : text[i] = "["}
    IN IF starts = {} THEN NoMatch
       ELSE [found |-> TRUE, span |-> SubSeq(text, Min(starts), Len(text))]

\* re.search: the leftmost position where the pattern matches, and the
\* match the greedy quantifier gives there
ReSearch(text) ==
    LET starts == {i \in 1..Len(text) : text[i] = "[" /\ Reach(text, i) # {}}
    IN IF starts = {} THEN NoMatch
       ELSE LET i == Min(starts)
            IN [found |-> TRUE, span |-> SubSeq(text, i, MatchEnd(text, i))]

-----------------------------------------------------------------------------
(* json.loads on a token sequence *)

\* tokens that are one JSON object literal each
ObjLexemes == {"A", "B", "C", "D"}
\* tokens that are one JSON literal each, none of them a dict
LitLexemes == {"null"}

\* a parsed JSON value: dict (named by its literal), None, or list
ObjV(id) == [k |-> "obj", id |-> id]
LitV(id) == [k |-> "lit", id |-> id]
ArrV == [k |-> "arr", id |-> "[]"]

ParseFail == [ok |-> FALSE, next |-> 0, val |-> ArrV, elems |-> <<>>]

RECURSIVE SkipWs(_, _)
\* json's WHITESPACE.match(s, i).end()
SkipWs(s, i) == IF i <= Len(s) /\ s[i] = "\n" THEN SkipWs(s, i + 1) ELSE i

RECURSIVE ParseValue(_, _)
RECURSIVE ParseElems(_, _, _)

\* scan_once(s, i): the value starting at i (after whitespace), the position
\* after it, and for a list its elements
ParseValue(s, i) ==
    LET j == SkipWs(s, i)
    IN IF j > Len(s) THEN ParseFail
       ELSE IF s[j] = "["
            THEN LET k == SkipWs(s, j + 1)
                 IN IF k <= Len(s) /\ s[k] = "]"
                    THEN [ok |-> TRUE, next |-> k + 1, val |-> ArrV, elems |-> <<>>]
                    ELSE ParseElems(s, j + 1, <<>>)
       ELSE IF s[j] \in ObjLexemes
            THEN [ok |-> TRUE, next |-> j + 1, val |-> ObjV(s[j]), elems |-> <<>>]
       ELSE IF s[j] \in LitLexemes
            THEN [ok |-> TRUE, next |-> j + 1, val |-> LitV(s[j]), elems |-> <<>>]
       ELSE ParseFail

\* JSONArray's loop: a value, then "]" (end) or "," (and another value)
ParseElems(s, i, acc) ==
    LET v == ParseValue(s, i)
    IN IF ~v.ok THEN ParseFail
       ELSE LET k == SkipWs(s, v.next)
            IN IF k > Len(s) THEN ParseFail
               ELSE IF s[k] = ","
                    THEN ParseElems(s, k + 1, Append(acc, v.val))
               ELSE IF s[k] = "]"
                    THEN [ok |-> TRUE, next |-> k + 1, val |-> ArrV,
                          elems |-> Append(acc, v.val)]
               ELSE ParseFail

\* json.loads(s): one value, then nothing but whitespace ("Extra data"
\* otherwise); ok = FALSE stands for JSONDecodeError
Loads(s) ==
    LET v == ParseValue(s, 1)
    IN IF v.ok /\ SkipWs(s, v.next) = Len(s) + 1
       THEN [ok |-> TRUE, val |-> v.val, elems |-> v.elems]
       ELSE [ok |-> FALSE, val |-> ArrV, elems |-> <<>>]

-----------------------------------------------------------------------------
(* The JSON objects the tokens "A".."D" stand for (shape of line 92) *)

\* "A": every field present; smart punctuation and an emoji in the texts,
\* a latin-1 url
ObjectA ==
    ("title" :> Str(<<65, 8217>>)) @@ ("url" :> Str(<<117, 233>>)) @@
    ("industry" :> Str(<<233>>)) @@ ("summary" :> Str(<<115, 8230>>)) @@
    ("tip" :> Str(<<128737, 65039, 116>>)) @@ ("Cyber Insurance" :> Str(<<105, 8212>>))
\* "B": {} - every field absent
ObjectB == [f \in {} |-> NullV]
\* "C": title and url only, summary null; the url holds U+2019, which
\* latin-1 cannot encode
ObjectC ==
    ("title" :> Str(<<67>>)) @@ ("url" :> Str(<<117, 8217>>)) @@ ("summary" :> NullV)
\* "D": no title; the tip is a number
ObjectD == ("url" :> Str(<<117>>)) @@ ("tip" :> Num(7))

ObjectOf(id) ==
    CASE id = "A" -> ObjectA
      [] id = "B" -> ObjectB
      [] id = "C" -> ObjectC
      [] id = "D" -> ObjectD

-----------------------------------------------------------------------------
(* 4.4 Report Renderer: the body of the loop `for item in data[:4]` *)

DefaultTitle == Str(<<78, 47, 65>>)
DefaultUrl ==
    Str(<<83, 111, 117, 114, 99, 101, 32, 85, 82, 76, 32,
          109, 105, 115, 115, 105, 110, 103>>)
DefaultIndustry == Str(<<71, 101, 110, 101, 114, 97, 108>>)
DefaultEmpty == Str(<<>>)

ReadSourceLabel == <<82, 101, 97, 100, 32, 83, 111, 117, 114, 99, 101, 58, 32>>
IndustryLabel == <<73, 110, 100, 117, 115, 116, 114, 121, 58, 32>>
SummaryLabel == <<83, 117, 109, 109, 97, 114, 121, 58, 32>>
RiskTipLabel == <<82, 105, 115, 107, 32, 84, 105, 112, 58, 32>>
InsuranceLabel == <<73, 110, 115, 117, 114, 97, 110, 99, 101, 58, 32>>

\* dict.get(key, default)
ItemGet(obj, key, default) == IF key \in DOMAIN obj THEN obj[key] ELSE default

\* the link argument of a cell written without one (fpdf's default '')
NoLink == Str(<<>>)

\* url = item.get('url', 'Source URL missing')
UrlOf(obj) == ItemGet(obj, "url", DefaultUrl)

\* a bug: the title placeholder is empty instead of 'N/A'
TitleOfNoPlaceholder(obj) == ItemGet(obj, "title", DefaultEmpty)

\* item.get('title', 'N/A')
TitleOf(obj) == ItemGet(obj, "title", DefaultTitle)

\* the six cells of one section in the order the loop body writes them;
\* raises marks a cell whose safe_encode call raises before it is written
CellAttempts(obj) ==
    << [raises |-> SafeEncodeRaises(TitleOf(obj)),
        cell |-> [kind |-> "title",
                  text |-> SafeEncode(TitleOf(obj)),
                  link |-> NoLink]],
       [raises |-> FALSE,
        cell |-> [kind |-> "source",
                  text |-> SafeEncode(Str(ReadSourceLabel \o PyStr(UrlOf(obj)))),
                  link |-> UrlOf(obj)]],
       [raises |-> SafeEncodeRaises(ItemGet(obj, "industry", DefaultIndustry)),
        cell |-> [kind |-> "industry",
                  text |-> IndustryLabel
                             \o SafeEncode(ItemGet(obj, "industry", DefaultIndustry)),
                  link |-> NoLink]],
       [raises |-> SafeEncodeRaises(ItemGet(obj, "summary", DefaultEmpty)),
        cell |-> [kind |-> "summary",
                  text |-> SummaryLabel
                             \o SafeEncode(ItemGet(obj, "summary", DefaultEmpty)),
                  link |-> NoLink]],
       [raises |-> SafeEncodeRaises(ItemGet(obj, "tip", DefaultEmpty)),
        cell |-> [kind |-> "tip",
                  text |-> RiskTipLabel
                             \o SafeEncode(ItemGet(obj, "tip", DefaultEmpty)),
                  link |-> NoLink]],
       [raises |-> SafeEncodeRaises(ItemGet(obj, "Cyber Insurance", DefaultEmpty)),
        cell |-> [kind |-> "insurance",
                  text |-> InsuranceLabel
                             \o SafeEncode(ItemGet(obj, "Cyber Insurance", DefaultEmpty)),
                  link |-> NoLink]] >>

\* a bug: the loop body swallows the error and goes on to the next element
RenderOneSwallow(elem) ==
    IF elem.k # "obj" THEN [raised |-> FALSE, cells |-> <<>>]
    ELSE LET at == CellAttempts(ObjectOf(elem.id))
             bad == {i \in DOMAIN at : at[i].raises}
             n == IF bad = {} THEN Len(at) ELSE Min(bad) - 1
         IN [raised |-> FALSE, cells |-> [i \in 1..n |-> at[i].cell]]

\* one pass of the loop body on a parsed element: the cells it writes and
\* whether it raises AttributeError (item.get on a value that is no dict, or
\* safe_encode on a truthy value that is no str)
RenderOne(elem) ==
    IF elem.k # "obj" THEN [raised |-> TRUE, cells |-> <<>>]
    ELSE LET at == CellAttempts(ObjectOf(elem.id))
             bad == {i \in DOMAIN at : at[i].raises}
             n == IF bad = {} THEN Len(at) ELSE Min(bad) - 1
         IN [raised |-> bad # {}, cells |-> [i \in 1..n |-> at[i].cell]]

\* a bug: the safety limit is missing, every element is rendered
SliceAll(d) == d

\* data[:4]
Slice4(d) == SubSeq(d, 1, IF Len(d) < CapArticles THEN Len(d) ELSE CapArticles)

\* fpdf attaches a link annotation to a cell when its link argument is truthy
LinkAttached(cell) == Truthy(cell.link)

RECURSIVE DocString(_)
\* the text of pdf.output(dest='S') that comes from the cells: each cell's
\* text and, for a cell with a link annotation, the link's target (the
\* fixed header, footer and PDF syntax are ASCII and left out)
DocString(cells) ==
    IF cells = <<>> THEN <<>>
    ELSE Head(cells).text
           \o (IF LinkAttached(Head(cells)) THEN PyStr(Head(cells).link) ELSE <<>>)
           \o DocString(Tail(cells))

\* str.encode('latin-1'): strict, UnicodeEncodeError (ok = FALSE) on a code
\* point above 255
EncodeLatin1Strict(s) ==
    IF \A i \in DOMAIN s : s[i] <= Latin1Max
    THEN [ok |-> TRUE, bytes |-> s]
    ELSE [ok |-> FALSE, bytes |-> <<>>]

-----------------------------------------------------------------------------
(* The texts crew.kickoff() may return *)

\* the elements the well-formed arrays are built from
ItemLexemes == {"A", "B", "D"}
\* the tokens the free-form texts are built from
FreeTokens == {"[", "]", ",", "\n", "x", "C", "null"}

RECURSIVE JoinItems(_)
\* the items separated by a comma and a line break
JoinItems(items) ==
    IF items = <<>> THEN <<>>
    ELSE IF Len(items) = 1 THEN <<items[1]>>
    ELSE <<items[1], ",", "\n">> \o JoinItems(Tail(items))

\* what the Analyst is asked for: prose, then a JSON array over several
\* lines, then prose
ArrayText(items) == <<"x", "\n", "[">> \o JoinItems(items) \o <<"]", "\n", "x">>

Texts ==
    {ArrayText(items) : items \in SeqsUpTo(ItemLexemes, MaxItems)}
      \cup SeqsUpTo(FreeTokens, MaxTextLen)

-----------------------------------------------------------------------------
(* The script run: lines 60-156 *)

ApiKeys == {"", "key"}

NoOutput == [made |-> FALSE, bytes |-> <<>>]

NoResult == [set |-> FALSE, text |-> <<>>]

\* what pdf.output(dest='S') returns depends on the fpdf installed: a str
\* (PyFPDF 1.x) or a bytearray (fpdf2), which has no encode method
OutputTypes == {"str", "bytearray"}

\* classes of the exceptions the run can raise, all subclasses of Exception
ExceptionClasses ==
    {"Exception", "AttributeError", "JSONDecodeError", "UnicodeEncodeError"}

\* a bug: the handler names ValueError, which only the two decode/encode
\* errors derive from
IsCaughtValueError(cls) == cls \in {"JSONDecodeError", "UnicodeEncodeError"}

\* except Exception as e
IsCaught(cls) == cls \in ExceptionClasses

\* a bug: the credential is not tested
TriggeredByButton(b, k) == b

\* st.button(...) and api_key
Triggered(b, k) == b /\ k # ""

Shown(kind, n, cls) == [kind |-> kind, n |-> n, cls |-> cls]

Raise(cls) == /\ pc' = "raised"
              /\ exc' = cls

InitRun ==
    /\ pc = "idle"
    /\ button = FALSE
    /\ api_key = ""
    /\ built = FALSE
    /\ kickoffs = 0
    /\ raw_result = NoResult
    /\ json_match = NoMatch
    /\ data = <<>>
    /\ parsed = FALSE
    /\ pdfCreated = FALSE
    /\ idx = 1
    /\ pdfCells = <<>>
    /\ pdf_output = NoOutput
    /\ display = <<>>
    /\ exc = "none"

Init ==
    /\ InitRun
    /\ fpdfOutput \in OutputTypes
    /\ sanIn = NullV
    /\ sanOut = NoSanOut
    /\ sanPc = "off"

\* Streamlit runs the script top to bottom: the widgets are read (lines 60,
\* 64) and everything a previous run showed is gone
ScriptRun ==
    /\ pc \in {"idle", "done"}
    /\ \E b \in BOOLEAN, k \in ApiKeys :
          /\ button' = b
          /\ api_key' = k
          /\ pc' = IF Triggered(b, k) THEN "construct" ELSE "done"
    /\ built' = FALSE
    /\ kickoffs' = 0
    /\ raw_result' = NoResult
    /\ json_match' = NoMatch
    /\ data' = <<>>
    /\ parsed' = FALSE
    /\ pdfCreated' = FALSE
    /\ idx' = 1
    /\ pdfCells' = <<>>
    /\ pdf_output' = NoOutput
    /\ display' = <<>>
    /\ exc' = "none"
    /\ UNCHANGED <<sanVars, envVars>>

\* lines 67-99: LLM, Agent, Task and Crew are constructed; the libraries may raise
Construct ==
    /\ pc = "construct"
    /\ \E ok \in BOOLEAN :
          IF ok THEN /\ built' = TRUE
                     /\ pc' = "kickoff"
                     /\ exc' = exc
                ELSE /\ Raise("Exception")
                     /\ built' = built
    /\ UNCHANGED <<button, api_key, kickoffs, raw_result, json_match, data, parsed,
                   pdfCreated, idx, pdfCells, pdf_output, display, sanVars, envVars>>

\* line 100: raw_result = crew.kickoff(); the call returns a text or raises
Kickoff ==
    /\ pc = "kickoff"
    /\ kickoffs' = kickoffs + 1
    /\ \E ok \in BOOLEAN :
          IF ok THEN /\ \E t \in Texts : raw_result' = [set |-> TRUE, text |-> t]
                     /\ pc' = "search"
                     /\ exc' = exc
                ELSE /\ Raise("Exception")
                     /\ raw_result' = raw_result
    /\ UNCHANGED <<button, api_key, built, json_match, data, parsed,
                   pdfCreated, idx, pdfCells, pdf_output, display, sanVars, envVars>>

\* lines 102-103, 152: json_match = re.search(...); if json_match: ... else: ...
Search ==
    /\ pc = "search"
    /\ json_match' = ReSearch(raw_result.text)
    /\ pc' = IF ReSearch(raw_result.text).found THEN "loads" ELSE "notfound"
    /\ UNCHANGED <<button, api_key, built, kickoffs, raw_result, data, parsed,
                   pdfCreated, idx, pdfCells, pdf_output, display, exc, sanVars, envVars>>

\* line 153: st.error("Agents could not verify enough authentic sources...")
NotFound ==
    /\ pc = "notfound"
    /\ display' = Append(display, Shown("error_extract", 0, "none"))
    /\ pc' = "done"
    /\ UNCHANGED <<button, api_key, built, kickoffs, raw_result, json_match, data,
                   parsed, pdfCreated, idx, pdfCells, pdf_output, exc, sanVars, envVars>>

\* a bug: a parse failure is handled like a missing match
LoadJsonAsNotFound ==
    /\ pc = "loads"
    /\ LET r == Loads(json_match.span)
       IN IF r.ok THEN /\ data' = r.elems
                       /\ parsed' = TRUE
                       /\ pc' = "newpdf"
                  ELSE /\ pc' = "notfound"
                       /\ UNCHANGED <<data, parsed>>
    /\ UNCHANGED <<button, api_key, built, kickoffs, raw_result, json_match,
                   pdfCreated, idx, pdfCells, pdf_output, display, exc, sanVars, envVars>>

\* line 104: data = json.loads(json_match.group())
LoadJson ==
    /\ pc = "loads"
    /\ LET r == Loads(json_match.span)
       IN IF r.ok THEN /\ data' = r.elems
                       /\ parsed' = TRUE
                       /\ pc' = "newpdf"
                       /\ exc' = exc
                  ELSE /\ Raise("JSONDecodeError")
                       /\ UNCHANGED <<data, parsed>>
    /\ UNCHANGED <<button, api_key, built, kickoffs, raw_result, json_match,
                   pdfCreated, idx, pdfCells, pdf_output, display, sanVars, envVars>>

\* lines 106-107: pdf = CyberPDF(); pdf.add_page()
NewPdf ==
    /\ pc = "newpdf"
    /\ pdfCreated' = TRUE
    /\ idx' = 1
    /\ pc' = "render"
    /\ UNCHANGED <<button, api_key, built, kickoffs, raw_result, json_match, data,
                   parsed, pdfCells, pdf_output, display, exc, sanVars, envVars>>

\* lines 109-140: one pass of the loop body, on element idx of data[:4]
RenderItem ==
    /\ pc = "render"
    /\ idx <= Len(Slice4(data))
    /\ LET r == RenderOne(Slice4(data)[idx])
       IN /\ pdfCells' = pdfCells \o r.cells
          /\ IF r.raised THEN /\ Raise("AttributeError")
                              /\ idx' = idx
                         ELSE /\ idx' = idx + 1
                              /\ UNCHANGED <<pc, exc>>
    /\ UNCHANGED <<button, api_key, built, kickoffs, raw_result, json_match, data,
                   parsed, pdfCreated, pdf_output, display, sanVars, envVars>>

\* line 143, after the loop: pdf_output = pdf.output(dest='S').encode('latin-1');
\* .encode on a bytearray raises AttributeError, on a str it is the strict
\* latin-1 encoding
ByteConvert ==
    /\ pc = "render"
    /\ idx > Len(Slice4(data))
    /\ LET r == EncodeLatin1Strict(DocString(pdfCells))
       IN IF fpdfOutput # "str"
          THEN /\ Raise("AttributeError")
               /\ pdf_output' = pdf_output
          ELSE IF r.ok THEN /\ pdf_output' = [made |-> TRUE, bytes |-> r.bytes]
                            /\ pc' = "success"
                            /\ exc' = exc
                       ELSE /\ Raise("UnicodeEncodeError")
                            /\ pdf_output' = pdf_output
    /\ UNCHANGED <<button, api_key, built, kickoffs, raw_result, json_match, data,
                   parsed, pdfCreated, idx, pdfCells, display, sanVars, envVars>>

\* line 145: st.success(f"... {len(data[:4])} articles found.")
ShowSuccess ==
    /\ pc = "success"
    /\ display' = Append(display, Shown("success", Len(Slice4(data)), "none"))
    /\ pc' = "download"
    /\ UNCHANGED <<button, api_key, built, kickoffs, raw_result, json_match, data,
                   parsed, pdfCreated, idx, pdfCells, pdf_output, exc, sanVars, envVars>>

\* lines 146-151: st.download_button(data=pdf_output, ...); the call may raise
OfferDownload ==
    /\ pc = "download"
    /\ \E ok \in BOOLEAN :
          IF ok THEN /\ display' = Append(display,
                                          Shown("download", Len(pdf_output.bytes), "none"))
                     /\ pc' = "done"
                     /\ exc' = exc
                ELSE /\ Raise("Exception")
                     /\ display' = display
    /\ UNCHANGED <<button, api_key, built, kickoffs, raw_result, json_match, data,
                   parsed, pdfCreated, idx, pdfCells, pdf_output, sanVars, envVars>>

\* lines 155-156: except Exception as e: st.error(f"Error: {e}"); an
\* exception the clause does not name leaves the script
Catch ==
    /\ pc = "raised"
    /\ IF IsCaught(exc)
       THEN /\ display' = Append(display, Shown("error_generic", 0, exc))
            /\ pc' = "done"
       ELSE /\ display' = display
            /\ pc' = "crashed"
    /\ exc' = "none"
    /\ UNCHANGED <<button, api_key, built, kickoffs, raw_result, json_match, data,
                   parsed, pdfCreated, idx, pdfCells, pdf_output, sanVars, envVars>>

Next ==
    \/ ScriptRun
    \/ Construct
    \/ Kickoff
    \/ Search
    \/ NotFound
    \/ LoadJson
    \/ NewPdf
    \/ RenderItem
    \/ ByteConvert
    \/ ShowSuccess
    \/ OfferDownload
    \/ Catch

Spec == Init /\ [][Next]_vars

(* The Text Sanitizer on its own: every input of SanInputs, one call *)

InitSan ==
    /\ InitRun
    /\ fpdfOutput = "str"
    /\ sanIn \in SanInputs
    /\ sanOut = NoSanOut
    /\ sanPc = "ready"

NextSan == CallSafeEncode

SpecSan == InitSan /\ [][NextSan]_vars

-----------------------------------------------------------------------------
(* Properties *)

HasShown(kind) == \E i \in DOMAIN display : display[i].kind = kind
CountShown(kind) == Cardinality({i \in DOMAIN display : display[i].kind = kind})

\* number of elements the report may hold: min(N, 4)
FirstN(d) == IF Len(d) < 4 THEN Len(d) ELSE 4

RECURSIVE SectionsOf(_, _)
\* the cells of the sections of elements 1..n of d, in order
SectionsOf(d, n) ==
    IF n = 0 THEN <<>> ELSE SectionsOf(d, n - 1) \o RenderOne(d[n]).cells

\* C1: the sections written to the document are those of the first elements
\* of the parsed array, one after the other in the array's order and never
\* past the fourth (after them comes at most the part of one section that a
\* failing element left); once the document is converted to bytes it holds
\* exactly the sections of the first min(N, 4) elements, six cells each.
C1_FirstFourInOrder ==
    /\ idx - 1 <= FirstN(data)
    /\ LET done == SectionsOf(data, idx - 1)
       IN /\ Len(done) = 6 * (idx - 1)
          /\ Len(pdfCells) >= Len(done)
          /\ SubSeq(pdfCells, 1, Len(done)) = done
          /\ Len(pdfCells) - Len(done) < 6
    /\ pdf_output.made =>
          /\ idx - 1 = FirstN(data)
          /\ Len(pdfCells) = 6 * FirstN(data)
          /\ \A i \in 1..FirstN(data) :
                SubSeq(pdfCells, 6 * (i - 1) + 1, 6 * i) = RenderOne(data[i]).cells

\* a report was offered for an array of more than four elements that are
\* not all alike
C1_Witness ==
    /\ HasShown("download")
    /\ Len(data) > 4
    /\ data[1] # data[2]

\* C2: crew.kickoff() is called only in a run where the button was pressed
\* and the credential is non-empty; with an empty credential nothing is
\* constructed, called, extracted, rendered or shown.
C2_PipelineNeedsButtonAndKey ==
    /\ kickoffs > 0 => (button = TRUE /\ api_key # "")
    /\ (api_key = "" \/ button = FALSE) =>
          /\ ~built
          /\ kickoffs = 0
          /\ ~raw_result.set
          /\ ~json_match.found
          /\ ~parsed
          /\ ~pdfCreated
          /\ pdfCells = <<>>
          /\ ~pdf_output.made
          /\ display = <<>>
          /\ pc \in {"idle", "done"}

\* a run in which the button was pressed with an empty credential has ended
C2_Witness ==
    /\ pc = "done"
    /\ button = TRUE
    /\ api_key = ""

\* some "[" of t is followed later by some "]"
ArrayShaped(t) ==
    \E i \in DOMAIN t : \E j \in DOMAIN t : i < j /\ t[i] = "[" /\ t[j] = "]"

\* C3: when the pipeline returned a text with no "[" followed later by "]",
\* nothing is parsed, no document is created or converted, and the run ends
\* showing the extraction-failure message alone, without a download.
C3_NoArrayShapeFails ==
    (raw_result.set /\ ~ArrayShaped(raw_result.text)) =>
        /\ ~parsed
        /\ data = <<>>
        /\ ~pdfCreated
        /\ pdfCells = <<>>
        /\ ~pdf_output.made
        /\ ~HasShown("download")
        /\ ~HasShown("success")
        /\ pc \in {"search", "notfound", "done"}
        /\ pc = "done" => display = <<Shown("error_extract", 0, "none")>>

\* a run ended on a text that holds brackets, but none closing after one opens
C3_Witness ==
    /\ pc = "done"
    /\ raw_result.set
    /\ raw_result.text = <<"]", "C", "[">>
    /\ HasShown("error_extract")

\* C4: when a span was matched that json.loads rejects, the run ends showing
\* the generic error (for the JSONDecodeError) and not the extraction-failure
\* message; no element is kept, no document is created, the pipeline is not
\* called again, nothing is offered.  The extraction-failure message is shown
\* only when nothing was matched.
C4_ParseFailureDistinct ==
    /\ (pc = "done" /\ json_match.found /\ ~Loads(json_match.span).ok) =>
          /\ display = <<Shown("error_generic", 0, "JSONDecodeError")>>
          /\ data = <<>>
          /\ ~parsed
          /\ ~pdfCreated
          /\ pdfCells = <<>>
          /\ ~pdf_output.made
          /\ kickoffs = 1
    /\ HasShown("error_extract") => ~json_match.found
    /\ (\E i \in DOMAIN display : display[i].cls = "JSONDecodeError") =>
          json_match.found

\* a run ended on an array with a trailing comma
C4_Witness ==
    /\ pc = "done"
    /\ json_match.span = <<"[", "C", ",", "]">>
    /\ display = <<Shown("error_generic", 0, "JSONDecodeError")>>

\* C5: a download is offered only after the pipeline returned, a span was
\* matched and parsed, every one of the first min(N, 4) elements was rendered
\* as a full section, and the document was converted to bytes; a run in
\* which an exception was raised or the extraction failed offers none.
C5_DownloadOnlyAfterAll ==
    /\ HasShown("download") =>
          /\ built
          /\ kickoffs = 1
          /\ raw_result.set
          /\ json_match.found
          /\ parsed
          /\ pdfCreated
          /\ idx = FirstN(data) + 1
          /\ Len(pdfCells) = 6 * FirstN(data)
          /\ \A i \in 1..Len(pdfCells) :
                pdfCells[i].kind =
                    <<"title", "source", "industry", "summary", "tip", "insurance">>
                        [((i - 1) % 6) + 1]
          /\ pdf_output.made
          /\ \A i \in DOMAIN pdf_output.bytes : pdf_output.bytes[i] \in 0..255
          /\ HasShown("success")
          /\ pc = "done"
    /\ (pc \in {"raised", "crashed", "notfound"}
          \/ HasShown("error_generic") \/ HasShown("error_extract")) =>
          ~HasShown("download")

\* a run that rendered a first section ended in an error at a later element
C5_Witness ==
    /\ pc = "done"
    /\ HasShown("error_generic")
    /\ Len(pdfCells) > 6
    /\ ~HasShown("download")

\* the text a section of obj must show in its cell of the given kind: the
\* sanitized value of a field that is present, the placeholder of one that is
\* absent ('N/A', 'Source URL missing', 'General', or nothing)
ExpectedText(obj, kind) ==
    CASE kind = "title" ->
           IF "title" \in DOMAIN obj THEN SafeEncode(obj["title"])
           ELSE <<78, 47, 65>>
      [] kind = "source" ->
           IF "url" \in DOMAIN obj
           THEN SafeEncode(Str(ReadSourceLabel \o PyStr(obj["url"])))
           ELSE ReadSourceLabel
                  \o <<83, 111, 117, 114, 99, 101, 32, 85, 82, 76, 32,
                       109, 105, 115, 115, 105, 110, 103>>
      [] kind = "industry" ->
           IndustryLabel \o
             (IF "industry" \in DOMAIN obj THEN SafeEncode(obj["industry"])
              ELSE <<71, 101, 110, 101, 114, 97, 108>>)
      [] kind = "summary" ->
           SummaryLabel \o
             (IF "summary" \in DOMAIN obj THEN SafeEncode(obj["summary"]) ELSE <<>>)
      [] kind = "tip" ->
           RiskTipLabel \o
             (IF "tip" \in DOMAIN obj THEN SafeEncode(obj["tip"]) ELSE <<>>)
      [] kind = "insurance" ->
           InsuranceLabel \o
             (IF "Cyber Insurance" \in DOMAIN obj
              THEN SafeEncode(obj["Cyber Insurance"]) ELSE <<>>)

\* the element whose section cell j of the document belongs to
ElementOfCell(j) == ((j - 1) \div 6) + 1

\* C6: every cell written for an element shows the placeholder of its field
\* when the element lacks the field and the sanitized source value when it
\* has it; and when the loop body raises (the loop has not passed the last
\* element), the element is no object or has a field present whose value is
\* a truthy non-string: an absent field never is the cause.
C6_AbsentFieldsDefaulted ==
    /\ \A j \in DOMAIN pdfCells :
          /\ data[ElementOfCell(j)].k = "obj"
          /\ pdfCells[j].text =
                ExpectedText(ObjectOf(data[ElementOfCell(j)].id), pdfCells[j].kind)
    /\ (pc = "raised" /\ exc = "AttributeError" /\ idx <= FirstN(data)) =>
          \/ data[idx].k # "obj"
          \/ \E key \in DOMAIN ObjectOf(data[idx].id) :
                LET v == ObjectOf(data[idx].id)[key]
                IN v.t # "str" /\ v.t # "null" /\ v.n # 0

\* a report was offered that holds the section of an element without fields
C6_Witness ==
    /\ HasShown("download")
    /\ \E i \in 1..FirstN(data) : data[i] = ObjV("B")

\* C7 (as claimed): the source line of an element with a url is a link to
\* the raw url under the sanitized text; the source line of an element
\* without a url shows the placeholder and carries no link.
C7_PlaceholderHasNoLink ==
    \A j \in DOMAIN pdfCells :
        pdfCells[j].kind = "source" =>
            LET obj == ObjectOf(data[ElementOfCell(j)].id)
            IN IF "url" \in DOMAIN obj
               THEN /\ LinkAttached(pdfCells[j])
                    /\ pdfCells[j].link = obj["url"]
                    /\ pdfCells[j].text = ExpectedText(obj, "source")
               ELSE /\ pdfCells[j].text = ExpectedText(obj, "source")
                    /\ ~LinkAttached(pdfCells[j])

\* C8: no exception leaves the run, and a triggered run that has ended shows
\* exactly one of: the download, the extraction-failure message, the generic
\* error message - and that one once.
C8_OneOutcome ==
    /\ pc # "crashed"
    /\ pc = "raised" => exc \in ExceptionClasses
    /\ CountShown("download") <= 1
    /\ CountShown("error_extract") <= 1
    /\ CountShown("error_generic") <= 1
    /\ (pc = "done" /\ button = TRUE /\ api_key # "") =>
          CountShown("download") + CountShown("error_extract")
            + CountShown("error_generic") = 1

\* a run ended in the generic error for an AttributeError raised in the
\* middle of the render loop
C8_Witness ==
    /\ pc = "done"
    /\ pdfCells # <<>>
    /\ \E i \in DOMAIN display :
          display[i] = Shown("error_generic", 0, "AttributeError")

\* C9: re.search matches exactly when the text is array-shaped, and the span
\* it gives, which is what json.loads is called on, runs from the first "["
\* of the text to the last "]" after it, line breaks included.
C9_WidestSpan ==
    (raw_result.set /\ pc # "search") =>
        LET t == raw_result.text
            opens == {i \in DOMAIN t : t[i] = "["}
            closes == {j \in DOMAIN t : t[j] = "]"}
        IN /\ json_match.found = ArrayShaped(t)
           /\ ArrayShaped(t) =>
                 /\ json_match.span = SubSeq(t, Min(opens), Max(closes))
                 /\ pc # "loads" => parsed = Loads(SubSeq(t, Min(opens), Max(closes))).ok
                 /\ parsed => data = Loads(SubSeq(t, Min(opens), Max(closes))).elems

\* a run ended in a parse error on a text of two arrays, the first of which
\* parses on its own
C9_Witness ==
    /\ pc = "done"
    /\ raw_result.text = <<"[", "]", "[", "]">>
    /\ json_match.span = <<"[", "]", "[", "]">>
    /\ Loads(<<"[", "]">>).ok
    /\ display = <<Shown("error_generic", 0, "JSONDecodeError")>>

\* what safe_encode makes of one code point
CharImage(c) ==
    CASE c \in {8216, 8217} -> <<39>>
      [] c \in {8220, 8221} -> <<34>>
      [] c \in {8211, 8212} -> <<45>>
      [] c = 8230 -> <<46, 46, 46>>
      [] OTHER -> IF c <= 255 THEN <<c>> ELSE <<>>

RECURSIVE Images(_)
Images(s) == IF s = <<>> THEN <<>> ELSE CharImage(Head(s)) \o Images(Tail(s))

\* C10: safe_encode returns, for a string or None, without raising; its
\* result holds only code points latin-1 can encode and is the input with
\* each character of the replacement table replaced by its ASCII equivalent,
\* every other character above 255 dropped and the rest kept in order; the
\* empty string and None give the empty string.
C10_SanitizerLatin1 ==
    sanOut.called =>
        /\ ~sanOut.raised
        /\ \A i \in DOMAIN sanOut.out : sanOut.out[i] \in 0..255
        /\ sanOut.out = Images(sanIn.s)
        /\ (sanIn.t = "null" \/ sanIn.s = <<>>) => sanOut.out = <<>>

\* safe_encode was applied to a string holding a kept character, a right
\* single quotation mark, and a character latin-1 cannot encode
C10_Witness ==
    /\ sanOut.called
    /\ sanIn = Str(<<97, 8217, 8364>>)
    /\ sanOut.out = <<97, 39>>

====
